---- MODULE Spec2Model ----
(***************************************************************************)
(* Attestation pre-state resolution and attestation verification of the    *)
(* beacon-chain blockchain service (package blockchain):                   *)
(*   getAttPreState, verifyAttTargetEpoch, verifyBeaconBlock,              *)
(*   verifyLMDFFGConsistent, verifyAttestation.                            *)
(*                                                                         *)
(* Beacon states are heap objects (the Go code passes *BeaconState         *)
(* pointers): Copy allocates, ProcessSlots advances the object it is       *)
(* given.  Every verifier goroutine is a process with a program counter;   *)
(* checkpointStateLock is held from the first line of getAttPreState to    *)
(* its return (defer Unlock).                                              *)
(***************************************************************************)
EXTENDS Integers, Sequences, FiniteSets, TLC

\* ------------------------------------------------------------------ bounds
\* Width of the unsigned integers of verifyAttTargetEpoch (uint64 in the code).
UintBits == 4
\* params.BeaconConfig().SecondsPerSlot and SlotsPerEpoch, scaled down.
SecondsPerSlot == 2
SlotsPerEpoch == 2
\* Block roots are 0..MaxRoot; root 0 is the genesis block.
MaxRoot == 1
\* Verifier goroutines.
NumProcs == 2
\* Calls of getAttPreState made in a behaviour.
MaxCalls == 3
\* Capacity of the checkpoint-state cache.
CacheSize == 2

Word == 2 ^ UintBits
Uints == 0 .. (Word - 1)
Roots == 0 .. MaxRoot
Procs == 1 .. NumProcs
NoProc == 0
Nil == -1

\* ------------------------------------------------------------- block tree
\* Two branches fork from genesis: the odd roots and the even roots.  Every
\* other slot is skipped.
BlockSlot(r) == 2 * r
ParentRoot(r) == IF r <= 2 THEN 0 ELSE r - 2
ForkOf(r) == r % 2
\* Target epochs run up to the epoch of the last block.
MaxEpoch == BlockSlot(MaxRoot) \div SlotsPerEpoch
MaxSlot == (MaxEpoch + 1) * SlotsPerEpoch
Epochs == 0 .. MaxEpoch
Checkpoints == [Epoch : Epochs, Root : Roots]

\* -------------------------------------------------------------- helpers
\* helpers.StartSlot and helpers.SlotToEpoch
StartSlot(epoch) == epoch * SlotsPerEpoch
SlotToEpoch(slot) == slot \div SlotsPerEpoch
\* uint64 subtraction
SubUint(a, b) == (a - b + Word) % Word

VARIABLES
    flags,        \* featureconfig.Get(): [NewStateMgmt, CheckHeadState]
    lock,         \* s.checkpointStateLock: NoProc or the goroutine holding it
    cache,        \* s.checkpointState: FIFO sequence of [cp, st]
    heap,         \* BeaconState objects: object id -> [slot, root]
    stateOf,      \* state held by s.stateGen / s.beaconDB per block root, or Nil
    headRoot,     \* s.HeadRoot
    headObj,      \* the object s.HeadState hands out
    dbBlocks,     \* block roots saved in s.beaconDB
    initSync,     \* block roots in the init-sync buffer
    pc,           \* per goroutine: position in getAttPreState / verifyAttestation
    cp,           \* per goroutine: the checkpoint argument c
    base,         \* per goroutine: local baseState / st / savedState (object id)
    res,          \* per goroutine: the return value being produced
    att,          \* per goroutine: attestation handed to verifyAttestation
    aState,       \* per goroutine: local aState of verifyAttestation (object id)
    hist,         \* per goroutine: what the current call has invoked so far
    calls,        \* calls of getAttPreState made so far
    genCalls,     \* per checkpoint: StateByRoot / beaconDB.State invocations
    everFailed,   \* some call has met a failing collaborator
    everEvicted,  \* the cache has evicted an entry
    vres          \* last call of a verify* check: [fn, args, err]

vars == <<flags, lock, cache, heap, stateOf, headRoot, headObj, dbBlocks, initSync,
          pc, cp, base, res, att, aState, hist, calls, genCalls, everFailed, everEvicted, vres>>
svcVars == <<flags, lock, cache, heap, stateOf, headRoot, headObj, initSync,
             pc, cp, base, res, att, aState, hist, calls, genCalls, everFailed, everEvicted>>

\* ------------------------------------------------------------ initial state
\* The state a block's post-state has when it is saved or replayed.
StateAt(r) == [slot |-> BlockSlot(r), root |-> r]
NilState == [slot |-> Nil, root |-> Nil]
NoCheckpoint == [Epoch |-> 0, Root |-> 0]
NoAtt == [Slot |-> 0, BeaconBlockRoot |-> 0]
NilIndexed == [nil |-> TRUE, committee |-> <<>>, data |-> NoAtt]
NoRes == [kind |-> "none", st |-> Nil, indexed |-> NilIndexed, err |-> "nil"]
NoHist == [resident |-> FALSE, cache |-> <<>>, gen |-> 0, flush |-> 0, slots |-> 0,
           has |-> 0, head |-> 0, ins |-> 0, handed |-> Nil, handedVal |-> NilState,
           verdict |-> "none", buf |-> {}, db |-> {}]
NoVres == [fn |-> "none", a |-> 0, b |-> 0, c |-> 0, oracle |-> "nil", err |-> "nil"]


\* The node has processed the blocks 0..known: block and state are in the DB and
\* the head is the last of them; object k+1 is the stored state of root k and
\* object known+2 the head state.
InitSvc(known) ==
    /\ lock = NoProc
    /\ cache = <<>>
    /\ heap = [i \in 1 .. (known + 2) |-> IF i = known + 2 THEN StateAt(known) ELSE StateAt(i - 1)]
    /\ stateOf = [r \in Roots |-> IF r <= known THEN r + 1 ELSE Nil]
    /\ headRoot = known
    /\ headObj = known + 2
    /\ pc = [p \in Procs |-> "idle"]
    /\ cp = [p \in Procs |-> NoCheckpoint]
    /\ base = [p \in Procs |-> Nil]
    /\ res = [p \in Procs |-> NoRes]
    /\ att = [p \in Procs |-> NoAtt]
    /\ aState = [p \in Procs |-> Nil]
    /\ hist = [p \in Procs |-> NoHist]
    /\ calls = 0
    /\ genCalls = [c \in Checkpoints |-> 0]
    /\ everFailed = FALSE
    /\ everEvicted = FALSE

\* ------------------------------------------------- beaconDB.Block, ancestor
\* s.beaconDB.Block: the stored block, or Nil
NilBlock == [Slot |-> Nil, ParentRoot |-> Nil]
Block(db, root) ==
    IF root \in db THEN [Slot |-> BlockSlot(root), ParentRoot |-> ParentRoot(root)] ELSE NilBlock

\* s.ancestor: walks parent roots from root to the first block at or below slot;
\* an error when a block on the way is in neither the DB nor the init-sync buffer.
RECURSIVE ancestor(_, _, _)
ancestor(known, root, slot) ==
    IF root \notin known THEN [r |-> Nil, err |-> "AncestorError"]
    ELSE IF BlockSlot(root) <= slot THEN [r |-> root, err |-> "nil"]
    ELSE ancestor(known, ParentRoot(root), slot)

\* ------------------------------------------------------ verifyAttTargetEpoch
verifyAttTargetEpoch_NoClamp(genesisTime, nowTime, epoch) ==
    LET currentSlot == SubUint(nowTime, genesisTime) \div SecondsPerSlot
        currentEpoch == SlotToEpoch(currentSlot)
        prevEpoch == SubUint(currentEpoch, 1)
    IN  IF epoch # prevEpoch /\ epoch # currentEpoch THEN "TargetEpochOutOfRange" ELSE "nil"

verifyAttTargetEpoch(genesisTime, nowTime, epoch) ==
    LET currentSlot == SubUint(nowTime, genesisTime) \div SecondsPerSlot
        currentEpoch == SlotToEpoch(currentSlot)
        prevEpoch == IF currentEpoch > 1 THEN currentEpoch - 1 ELSE 0
    IN  IF epoch # prevEpoch /\ epoch # currentEpoch THEN "TargetEpochOutOfRange" ELSE "nil"

\* ---------------------------------------------------------- verifyBeaconBlock
\* dbErr: the error s.beaconDB.Block returns ("nil" for none).
verifyBeaconBlock_NonStrict(db, dbErr, beaconBlockRoot, slot) ==
    LET b == Block(db, beaconBlockRoot)
    IN  IF dbErr # "nil" THEN dbErr
        ELSE IF b = NilBlock THEN "UnknownHead"
        ELSE IF b.Slot >= slot THEN "AttestationPredatesBlock"
        ELSE "nil"

verifyBeaconBlock(db, dbErr, beaconBlockRoot, slot) ==
    LET b == Block(db, beaconBlockRoot)
    IN  IF dbErr # "nil" THEN dbErr
        ELSE IF b = NilBlock THEN "UnknownHead"
        ELSE IF b.Slot > slot THEN "AttestationPredatesBlock"
        ELSE "nil"

\* ----------------------------------------------------- verifyLMDFFGConsistent
verifyLMDFFGConsistent_EpochAsSlot(known, ffgEpoch, ffgRoot, lmdRoot) ==
    LET r == ancestor(known, lmdRoot, ffgEpoch)
    IN  IF r.err # "nil" THEN r.err
        ELSE IF ffgRoot # r.r THEN "LMDFFGInconsistent"
        ELSE "nil"

verifyLMDFFGConsistent(known, ffgEpoch, ffgRoot, lmdRoot) ==
    LET ffgSlot == StartSlot(ffgEpoch)
        r == ancestor(known, lmdRoot, ffgSlot)
    IN  IF r.err # "nil" THEN r.err
        ELSE IF ffgRoot # r.r THEN "LMDFFGInconsistent"
        ELSE "nil"

\* The three checks as operations of the service, on inputs the caller chooses;
\* each behaviour makes one call.
VerifyAttTargetEpoch ==
    /\ vres.fn = "none"
    /\ \E g \in Uints, n \in Uints, e \in Uints :
         vres' = [fn |-> "verifyAttTargetEpoch", a |-> g, b |-> n, c |-> e, oracle |-> "nil",
                  err |-> verifyAttTargetEpoch(g, n, e)]
    /\ UNCHANGED <<svcVars, dbBlocks>>

VerifyBeaconBlock ==
    /\ vres.fn = "none"
    /\ \E root \in Roots, slot \in 0 .. MaxSlot, dbErr \in {"nil", "DBError"} :
         vres' = [fn |-> "verifyBeaconBlock", a |-> root, b |-> slot, c |-> 0, oracle |-> dbErr,
                  err |-> verifyBeaconBlock(dbBlocks, dbErr, root, slot)]
    /\ UNCHANGED <<svcVars, dbBlocks>>

VerifyLMDFFGConsistent ==
    /\ vres.fn = "none"
    /\ \E ffgEpoch \in Epochs, ffgRoot \in Roots, lmdRoot \in Roots :
         vres' = [fn |-> "verifyLMDFFGConsistent", a |-> ffgEpoch, b |-> ffgRoot, c |-> lmdRoot,
                  oracle |-> "nil",
                  err |-> verifyLMDFFGConsistent(dbBlocks \cup initSync, ffgEpoch, ffgRoot, lmdRoot)]
    /\ UNCHANGED <<svcVars, dbBlocks>>

\* The checks run against any DB and init-sync buffer the node can have.
InitVerify ==
    /\ flags \in [NewStateMgmt : BOOLEAN, CheckHeadState : {FALSE}]
    /\ \E known \in Roots :
         /\ InitSvc(known)
         /\ dbBlocks = 0 .. known
         /\ initSync \in SUBSET ((known + 1) .. MaxRoot)
    /\ vres = NoVres

NextVerify ==
    \/ VerifyAttTargetEpoch
    \/ VerifyBeaconBlock
    \/ VerifyLMDFFGConsistent

SpecVerify == InitVerify /\ [][NextVerify]_vars

\* ============================================================ the service
\* ------------------------------------------------------------ state objects
Min(S) == CHOOSE x \in S : \A y \in S : x <= y
NewId(h) == Min((1 .. (Cardinality(DOMAIN h) + 1)) \ DOMAIN h)

\* BeaconState.Copy: a new object with the same contents.
CopyState_Alias(h, id) == [h |-> h, id |-> id]
CopyState(h, id) == [h |-> h @@ (NewId(h) :> h[id]), id |-> NewId(h)]

\* state.ProcessSlots: advances the object it is given to slot, in place.
ProcessSlots(h, id, slot) == [h EXCEPT ![id].slot = slot]

\* Objects dropped by every goroutine are collected.
Collect(h, live) == [i \in (DOMAIN h) \cap live |-> h[i]]
Range(f) == {f[x] : x \in DOMAIN f}
Shared(c, so) == {c[i].st : i \in DOMAIN c} \cup Range(so) \cup {headObj}

\* ------------------------------------------------- checkpoint-state cache
CacheIndex(c, ckpt) == {i \in DOMAIN c : c[i].cp = ckpt}
\* cache.StateByCheckpoint: the entry's state, or Nil on a miss.
CacheLookup_AlwaysMiss(c, ckpt) == Nil
CacheLookup(c, ckpt) == IF CacheIndex(c, ckpt) = {} THEN Nil ELSE c[Min(CacheIndex(c, ckpt))].st
\* cache.AddCheckpointState: add if not present, then trim the oldest entries.
CacheAdd(c, ckpt, id) ==
    LET added == IF CacheIndex(c, ckpt) = {} THEN Append(c, [cp |-> ckpt, st |-> id]) ELSE c
    IN  IF Len(added) > CacheSize THEN Tail(added) ELSE added
Evicts(c, ckpt) == CacheIndex(c, ckpt) = {} /\ Len(c) >= CacheSize

\* ------------------------------------------------------- state generator
\* stateGen.HasState
HasState(so, root) == so[root] # Nil
\* stateGen.StateByRoot can produce a state it does not hold by replaying the
\* blocks of the DB from the nearest ancestor it holds a state for.
RECURSIVE CanReplay(_, _, _)
CanReplay(so, db, root) ==
    \/ HasState(so, root)
    \/ root > 0 /\ root \in db /\ CanReplay(so, db, ParentRoot(root))

\* --------------------------------------------------------- getAttPreState
ErrRes(e) == [kind |-> "preState", st |-> Nil, indexed |-> NilIndexed, err |-> e]
OkRes(id) == [kind |-> "preState", st |-> id, indexed |-> NilIndexed, err |-> "nil"]
Bump(h, f) == [h EXCEPT ![f] = @ + 1]

\* return nil, err (the deferred Unlock runs in Unlock)
Fail(p, e) ==
    /\ res' = [res EXCEPT ![p] = ErrRes(e)]
    /\ pc' = [pc EXCEPT ![p] = "unlock"]
    /\ everFailed' = TRUE

\* A goroutine calls getAttPreState(ctx, c).
Call(p) ==
    /\ pc[p] = "idle"
    /\ calls < MaxCalls
    /\ \E c \in Checkpoints : cp' = [cp EXCEPT ![p] = c]
    /\ calls' = calls + 1
    /\ pc' = [pc EXCEPT ![p] = "lock"]
    /\ UNCHANGED <<flags, lock, cache, heap, stateOf, headRoot, headObj, dbBlocks, initSync,
                   base, res, att, aState, hist, genCalls, everFailed, everEvicted, vres>>

\* s.checkpointStateLock.Lock()
Lock_Unguarded(p) ==
    /\ pc[p] = "lock"
    /\ lock' = p
    /\ pc' = [pc EXCEPT ![p] = "lookup"]
    /\ hist' = [hist EXCEPT ![p].cache = cache, ![p].resident = (CacheIndex(cache, cp[p]) # {})]
    /\ UNCHANGED <<flags, cache, heap, stateOf, headRoot, headObj, dbBlocks, initSync, cp, base,
                   res, att, aState, calls, genCalls, everFailed, everEvicted, vres>>

Lock(p) ==
    /\ pc[p] = "lock"
    /\ lock = NoProc
    /\ lock' = p
    /\ pc' = [pc EXCEPT ![p] = "lookup"]
    /\ hist' = [hist EXCEPT ![p].cache = cache, ![p].resident = (CacheIndex(cache, cp[p]) # {})]
    /\ UNCHANGED <<flags, cache, heap, stateOf, headRoot, headObj, dbBlocks, initSync, cp, base,
                   res, att, aState, calls, genCalls, everFailed, everEvicted, vres>>

\* s.checkpointState.StateByCheckpoint(c): an error, a hit (a copy of the cached
\* state is returned) or a miss (the feature flags pick the path).
Lookup(p) ==
    /\ pc[p] = "lookup"
    /\ \/ /\ Fail(p, "CacheLookupError")
          /\ UNCHANGED heap
       \/ /\ CacheLookup(cache, cp[p]) # Nil
          /\ LET cachedState == CopyState(heap, CacheLookup(cache, cp[p]))
             IN  /\ heap' = cachedState.h
                 /\ res' = [res EXCEPT ![p] = OkRes(cachedState.id)]
          /\ pc' = [pc EXCEPT ![p] = "unlock"]
          /\ UNCHANGED everFailed
       \/ /\ CacheLookup(cache, cp[p]) = Nil
          /\ pc' = [pc EXCEPT ![p] = IF flags.NewStateMgmt THEN "hasState"
                                     ELSE IF flags.CheckHeadState THEN "headRoot"
                                     ELSE "dbState"]
          /\ UNCHANGED <<heap, res, everFailed>>
    /\ UNCHANGED <<flags, lock, cache, stateOf, headRoot, headObj, dbBlocks, initSync, cp, base,
                   att, aState, hist, calls, genCalls, everEvicted, vres>>

\* Unlock() written before each successful return only
Unlock_OnlyOnSuccess(p) ==
    /\ pc[p] = "unlock"
    /\ lock' = IF res[p].err = "nil" THEN NoProc ELSE lock
    /\ pc' = [pc EXCEPT ![p] = "idle"]
    /\ base' = [base EXCEPT ![p] = Nil]
    /\ cp' = [cp EXCEPT ![p] = NoCheckpoint]
    /\ res' = [res EXCEPT ![p] = NoRes]
    /\ hist' = [hist EXCEPT ![p] = NoHist]
    /\ heap' = Collect(heap, Shared(cache, stateOf) \cup {res[q].st : q \in Procs \ {p}}
                             \cup {base[q] : q \in Procs \ {p}})
    /\ UNCHANGED <<flags, cache, stateOf, headRoot, headObj, dbBlocks, initSync, att, aState,
                   calls, genCalls, everFailed, everEvicted, vres>>

\* deferred s.checkpointStateLock.Unlock(), and the return: the caller takes the
\* result (res at this point) and the goroutine's locals go out of scope.
Unlock(p) ==
    /\ pc[p] = "unlock"
    /\ lock' = NoProc
    /\ pc' = [pc EXCEPT ![p] = "idle"]
    /\ base' = [base EXCEPT ![p] = Nil]
    /\ cp' = [cp EXCEPT ![p] = NoCheckpoint]
    /\ res' = [res EXCEPT ![p] = NoRes]
    /\ hist' = [hist EXCEPT ![p] = NoHist]
    /\ heap' = Collect(heap, Shared(cache, stateOf) \cup {res[q].st : q \in Procs \ {p}}
                             \cup {base[q] : q \in Procs \ {p}})
    /\ UNCHANGED <<flags, cache, stateOf, headRoot, headObj, dbBlocks, initSync, att, aState,
                   calls, genCalls, everFailed, everEvicted, vres>>

CheckHasState_AlwaysFlush(p) ==
    /\ pc[p] = "hasState"
    /\ hist' = [hist EXCEPT ![p] = [Bump(@, "has") EXCEPT !.buf = initSync, !.db = dbBlocks]]
    /\ pc' = [pc EXCEPT ![p] = "saveBlocks"]
    /\ UNCHANGED <<flags, lock, cache, heap, stateOf, headRoot, headObj, dbBlocks, initSync, cp,
                   base, res, att, aState, calls, genCalls, everFailed, everEvicted, vres>>

\* ---- featureconfig.Get().NewStateMgmt
\* if !s.stateGen.HasState(ctx, c.Root)
CheckHasState(p) ==
    /\ pc[p] = "hasState"
    /\ hist' = [hist EXCEPT ![p] = [Bump(@, "has") EXCEPT !.buf = initSync, !.db = dbBlocks]]
    /\ pc' = [pc EXCEPT ![p] = IF HasState(stateOf, cp[p].Root) THEN "stateByRoot" ELSE "saveBlocks"]
    /\ UNCHANGED <<flags, lock, cache, heap, stateOf, headRoot, headObj, dbBlocks, initSync, cp,
                   base, res, att, aState, calls, genCalls, everFailed, everEvicted, vres>>

\* the buffer taken and cleared before SaveBlocks is called
SaveBlocks_ClearsFirst(p) ==
    /\ pc[p] = "saveBlocks"
    /\ hist' = [hist EXCEPT ![p] = Bump(@, "flush")]
    /\ \/ /\ Fail(p, "SaveBlocksError")
          /\ initSync' = {}
          /\ UNCHANGED dbBlocks
       \/ /\ dbBlocks' = dbBlocks \cup initSync
          /\ pc' = [pc EXCEPT ![p] = "clear"]
          /\ UNCHANGED <<res, everFailed, initSync>>
    /\ UNCHANGED <<flags, lock, cache, heap, stateOf, headRoot, headObj, cp, base, att, aState,
                   calls, genCalls, everEvicted, vres>>

\* s.beaconDB.SaveBlocks(ctx, s.getInitSyncBlocks())
SaveBlocks(p) ==
    /\ pc[p] = "saveBlocks"
    /\ hist' = [hist EXCEPT ![p] = Bump(@, "flush")]
    /\ \/ /\ Fail(p, "SaveBlocksError")
          /\ UNCHANGED dbBlocks
       \/ /\ dbBlocks' = dbBlocks \cup initSync
          /\ pc' = [pc EXCEPT ![p] = "clear"]
          /\ UNCHANGED <<res, everFailed>>
    /\ UNCHANGED <<flags, lock, cache, heap, stateOf, headRoot, headObj, initSync, cp, base, att, aState,
                   calls, genCalls, everEvicted, vres>>

\* s.clearInitSyncBlocks()
ClearInitSyncBlocks(p) ==
    /\ pc[p] = "clear"
    /\ initSync' = {}
    /\ pc' = [pc EXCEPT ![p] = "stateByRoot"]
    /\ UNCHANGED <<flags, lock, cache, heap, stateOf, headRoot, headObj, dbBlocks, cp, base, res,
                   att, aState, hist, calls, genCalls, everFailed, everEvicted, vres>>

\* baseState, err := s.stateGen.StateByRoot(ctx, c.Root): the state the generator
\* holds, or one it replays and keeps, or an error.
StateByRoot(p) ==
    /\ pc[p] = "stateByRoot"
    /\ genCalls' = [genCalls EXCEPT ![cp[p]] = @ + 1]
    /\ \/ /\ Fail(p, "StateByRootError")
          /\ hist' = [hist EXCEPT ![p] = Bump(@, "gen")]
          /\ UNCHANGED <<heap, stateOf, base>>
       \/ /\ CanReplay(stateOf, dbBlocks, cp[p].Root)
          /\ LET held == HasState(stateOf, cp[p].Root)
                 id == IF held THEN stateOf[cp[p].Root] ELSE NewId(heap)
             IN  /\ heap' = IF held THEN heap ELSE heap @@ (id :> StateAt(cp[p].Root))
                 /\ stateOf' = [stateOf EXCEPT ![cp[p].Root] = id]
                 /\ base' = [base EXCEPT ![p] = id]
                 /\ hist' = [hist EXCEPT ![p] = [Bump(@, "gen") EXCEPT !.handed = id,
                                                    !.handedVal = heap'[id]]]
          /\ pc' = [pc EXCEPT ![p] = "advance"]
          /\ UNCHANGED <<res, everFailed>>
    /\ UNCHANGED <<flags, lock, cache, headRoot, headObj, dbBlocks, initSync, cp, att, aState, calls,
                   everEvicted, vres>>

\* if helpers.StartSlot(c.Epoch) >= baseState.Slot()
Advance_AlsoWhenEqual(p) ==
    /\ pc[p] = "advance"
    /\ IF StartSlot(cp[p].Epoch) >= heap[base[p]].slot
       THEN /\ hist' = [hist EXCEPT ![p] = Bump(@, "slots")]
            /\ LET copy == CopyState(heap, base[p])
               IN  \/ /\ heap' = ProcessSlots(copy.h, copy.id, StartSlot(cp[p].Epoch))
                      /\ base' = [base EXCEPT ![p] = copy.id]
                      /\ pc' = [pc EXCEPT ![p] = "add"]
                      /\ UNCHANGED <<res, everFailed>>
                   \/ /\ Fail(p, "ProcessSlotsError")
                      /\ UNCHANGED <<heap, base>>
       ELSE /\ pc' = [pc EXCEPT ![p] = "add"]
            /\ UNCHANGED <<heap, base, res, hist, everFailed>>
    /\ UNCHANGED <<flags, lock, cache, stateOf, headRoot, headObj, dbBlocks, initSync, cp, att, aState,
                   calls, genCalls, everEvicted, vres>>

\* if helpers.StartSlot(c.Epoch) > baseState.Slot() { baseState = baseState.Copy();
\*    baseState, err = state.ProcessSlots(ctx, baseState, helpers.StartSlot(c.Epoch)) }
Advance(p) ==
    /\ pc[p] = "advance"
    /\ IF StartSlot(cp[p].Epoch) > heap[base[p]].slot
       THEN /\ hist' = [hist EXCEPT ![p] = Bump(@, "slots")]
            /\ LET copy == CopyState(heap, base[p])
               IN  \/ /\ heap' = ProcessSlots(copy.h, copy.id, StartSlot(cp[p].Epoch))
                      /\ base' = [base EXCEPT ![p] = copy.id]
                      /\ pc' = [pc EXCEPT ![p] = "add"]
                      /\ UNCHANGED <<res, everFailed>>
                   \/ /\ Fail(p, "ProcessSlotsError")
                      /\ UNCHANGED <<heap, base>>
       ELSE /\ pc' = [pc EXCEPT ![p] = "add"]
            /\ UNCHANGED <<heap, base, res, hist, everFailed>>
    /\ UNCHANGED <<flags, lock, cache, stateOf, headRoot, headObj, dbBlocks, initSync, cp, att, aState,
                   calls, genCalls, everEvicted, vres>>

\* s.checkpointState.AddCheckpointState({c, baseState}); return baseState, nil
AddCheckpointState_InsertThenFail(p) ==
    /\ pc[p] = "add"
    /\ cache' = CacheAdd(cache, cp[p], base[p])
    /\ everEvicted' = (everEvicted \/ Evicts(cache, cp[p]))
    /\ \/ /\ Fail(p, "AddCheckpointStateError")
          /\ UNCHANGED hist
       \/ /\ hist' = [hist EXCEPT ![p] = Bump(@, "ins")]
          /\ res' = [res EXCEPT ![p] = OkRes(base[p])]
          /\ pc' = [pc EXCEPT ![p] = "unlock"]
          /\ UNCHANGED everFailed
    /\ UNCHANGED <<flags, lock, heap, stateOf, headRoot, headObj, dbBlocks, initSync, cp, base,
                   att, aState, calls, genCalls, vres>>

AddCheckpointState(p) ==
    /\ pc[p] = "add"
    /\ \/ /\ Fail(p, "AddCheckpointStateError")
          /\ UNCHANGED <<cache, hist, everEvicted>>
       \/ /\ cache' = CacheAdd(cache, cp[p], base[p])
          /\ everEvicted' = (everEvicted \/ Evicts(cache, cp[p]))
          /\ hist' = [hist EXCEPT ![p] = Bump(@, "ins")]
          /\ res' = [res EXCEPT ![p] = OkRes(base[p])]
          /\ pc' = [pc EXCEPT ![p] = "unlock"]
          /\ UNCHANGED everFailed
    /\ UNCHANGED <<flags, lock, heap, stateOf, headRoot, headObj, dbBlocks, initSync, cp, base,
                   att, aState, calls, genCalls, vres>>

\* ---- featureconfig.Get().CheckHeadState
\* headRoot, err := s.HeadRoot(ctx); if bytes.Equal(headRoot, c.Root)
CheckHeadRoot(p) ==
    /\ pc[p] = "headRoot"
    /\ \/ /\ Fail(p, "HeadRootError")
       \/ /\ pc' = [pc EXCEPT ![p] = IF headRoot = cp[p].Root THEN "headState" ELSE "dbState"]
          /\ UNCHANGED <<res, everFailed>>
    /\ UNCHANGED <<flags, lock, cache, heap, stateOf, headRoot, headObj, dbBlocks, initSync, cp,
                   base, att, aState, hist, calls, genCalls, everEvicted, vres>>

\* st, err := s.HeadState(ctx); AddCheckpointState({c, st.Copy()}); return st, nil
UseHeadState(p) ==
    /\ pc[p] = "headState"
    /\ \/ /\ Fail(p, "HeadStateError")
          /\ UNCHANGED <<cache, heap, hist, everEvicted>>
       \/ /\ Fail(p, "AddCheckpointStateError")
          /\ hist' = [hist EXCEPT ![p] = Bump(@, "head")]
          /\ UNCHANGED <<cache, heap, everEvicted>>
       \/ /\ LET copy == CopyState(heap, headObj)
             IN  /\ heap' = copy.h
                 /\ cache' = CacheAdd(cache, cp[p], copy.id)
          /\ everEvicted' = (everEvicted \/ Evicts(cache, cp[p]))
          /\ hist' = [hist EXCEPT ![p] = Bump(Bump(@, "head"), "ins")]
          /\ res' = [res EXCEPT ![p] = OkRes(headObj)]
          /\ pc' = [pc EXCEPT ![p] = "unlock"]
          /\ UNCHANGED everFailed
    /\ UNCHANGED <<flags, lock, stateOf, headRoot, headObj, dbBlocks, initSync, cp, base, att, aState,
                   calls, genCalls, vres>>

\* ---- neither flag, or the head is another root
\* baseState, err := s.beaconDB.State(ctx, c.Root); if baseState == nil { error }
DBState(p) ==
    /\ pc[p] = "dbState"
    /\ genCalls' = [genCalls EXCEPT ![cp[p]] = @ + 1]
    /\ \/ /\ Fail(p, "DBStateError")
          /\ hist' = [hist EXCEPT ![p] = Bump(@, "gen")]
          /\ UNCHANGED base
       \/ /\ ~HasState(stateOf, cp[p].Root)
          /\ Fail(p, "PreStateDoesNotExist")
          /\ hist' = [hist EXCEPT ![p] = Bump(@, "gen")]
          /\ UNCHANGED base
       \/ /\ HasState(stateOf, cp[p].Root)
          /\ base' = [base EXCEPT ![p] = stateOf[cp[p].Root]]
          /\ hist' = [hist EXCEPT ![p] = [Bump(@, "gen") EXCEPT !.handed = stateOf[cp[p].Root],
                                             !.handedVal = heap[stateOf[cp[p].Root]]]]
          /\ pc' = [pc EXCEPT ![p] = "advanceSaved"]
          /\ UNCHANGED <<res, everFailed>>
    /\ UNCHANGED <<flags, lock, cache, heap, stateOf, headRoot, headObj, dbBlocks, initSync, cp,
                   att, aState, calls, everEvicted, vres>>

\* if helpers.StartSlot(c.Epoch) > baseState.Slot() { savedState := baseState.Copy();
\*    savedState, err = state.ProcessSlots(ctx, savedState, helpers.StartSlot(c.Epoch)) }
AdvanceSaved(p) ==
    /\ pc[p] = "advanceSaved"
    /\ IF StartSlot(cp[p].Epoch) > heap[base[p]].slot
       THEN /\ hist' = [hist EXCEPT ![p] = Bump(@, "slots")]
            /\ LET savedState == CopyState(heap, base[p])
               IN  \/ /\ heap' = ProcessSlots(savedState.h, savedState.id, StartSlot(cp[p].Epoch))
                      /\ base' = [base EXCEPT ![p] = savedState.id]
                      /\ pc' = [pc EXCEPT ![p] = "addCopy"]
                      /\ UNCHANGED <<res, everFailed>>
                   \/ /\ Fail(p, "ProcessSlotsError")
                      /\ UNCHANGED <<heap, base>>
       ELSE /\ pc' = [pc EXCEPT ![p] = "addCopy"]
            /\ UNCHANGED <<heap, base, res, hist, everFailed>>
    /\ UNCHANGED <<flags, lock, cache, stateOf, headRoot, headObj, dbBlocks, initSync, cp, att, aState,
                   calls, genCalls, everEvicted, vres>>

\* AddCheckpointState({c, savedState.Copy()}); return savedState, nil   (advanced)
\* AddCheckpointState({c, baseState.Copy()}); return baseState, nil     (not advanced)
AddCheckpointStateCopy(p) ==
    /\ pc[p] = "addCopy"
    /\ \/ /\ Fail(p, "AddCheckpointStateError")
          /\ UNCHANGED <<cache, heap, hist, everEvicted>>
       \/ /\ LET copy == CopyState(heap, base[p])
             IN  /\ heap' = copy.h
                 /\ cache' = CacheAdd(cache, cp[p], copy.id)
          /\ everEvicted' = (everEvicted \/ Evicts(cache, cp[p]))
          /\ hist' = [hist EXCEPT ![p] = Bump(@, "ins")]
          /\ res' = [res EXCEPT ![p] = OkRes(base[p])]
          /\ pc' = [pc EXCEPT ![p] = "unlock"]
          /\ UNCHANGED everFailed
    /\ UNCHANGED <<flags, lock, stateOf, headRoot, headObj, dbBlocks, initSync, cp, base, att, aState,
                   calls, genCalls, vres>>

getAttPreState(p) ==
    \/ Lock(p)
    \/ Lookup(p)
    \/ CheckHasState(p)
    \/ SaveBlocks(p)
    \/ ClearInitSyncBlocks(p)
    \/ StateByRoot(p)
    \/ Advance(p)
    \/ AddCheckpointState(p)
    \/ CheckHeadRoot(p)
    \/ UseHeadState(p)
    \/ DBState(p)
    \/ AdvanceSaved(p)
    \/ AddCheckpointStateCopy(p)
    \/ Unlock(p)

\* -------------------------------------------------------- verifyAttestation
\* Goroutines that call verifyAttestation concurrently.
NumVerifiers == 1
Verifiers == 1 .. NumVerifiers

\* helpers.Seed(state, epoch, DomainBeaconAttester): the randao mix of the
\* state's branch for the epoch.
Seed(h, id, epoch) == <<ForkOf(h[id].root), epoch>>
\* helpers.BeaconCommitteeFromState(state, slot, index): the shuffling of the
\* state's seed for the epoch of the slot.
BeaconCommitteeFromState(h, id, slot) == <<Seed(h, id, SlotToEpoch(slot)), slot>>
\* attestationutil.ConvertToIndexed(ctx, a, committee)
ConvertToIndexed(a, committee) == [nil |-> FALSE, committee |-> committee, data |-> a]

AttRes(indexed, e) == [kind |-> "att", st |-> Nil, indexed |-> indexed, err |-> e]
\* return nil, nil
AttFail_NoError(p, e) ==
    /\ res' = [res EXCEPT ![p] = AttRes(NilIndexed, "nil")]
    /\ pc' = [pc EXCEPT ![p] = "vaRet"]

\* return nil, err
AttFail(p, e) ==
    /\ res' = [res EXCEPT ![p] = AttRes(NilIndexed, e)]
    /\ pc' = [pc EXCEPT ![p] = "vaRet"]

guardVars == <<lock, cache, cp, genCalls, everFailed, everEvicted>>
hostVars == <<flags, headRoot, headObj, vres>>

\* A goroutine calls verifyAttestation(ctx, baseState, a) with the pre-state of
\* some root and an attestation.
CallVerifyAttestation(p) ==
    /\ pc[p] = "idle"
    /\ \E r \in {x \in Roots : HasState(stateOf, x)} : base' = [base EXCEPT ![p] = stateOf[r]]
    /\ \E slot \in 0 .. (MaxSlot - 1), root \in Roots :
         att' = [att EXCEPT ![p] = [Slot |-> slot, BeaconBlockRoot |-> root]]
    /\ pc' = [pc EXCEPT ![p] = "vaVerify"]
    /\ UNCHANGED <<guardVars, hostVars, heap, stateOf, dbBlocks, initSync, res, aState, hist,
                   calls>>

\* if err != nil { reconcile } instead of if err == helpers.ErrSigFailedToVerify
VerifyIndexed_ReconcileOnAnyError(p) ==
    /\ pc[p] = "vaVerify"
    /\ LET committee == BeaconCommitteeFromState(heap, base[p], att[p].Slot)
           indexedAtt == ConvertToIndexed(att[p], committee)
       IN  \/ /\ AttFail(p, "CommitteeError")
              /\ UNCHANGED hist
           \/ /\ res' = [res EXCEPT ![p] = AttRes(indexedAtt, "nil")]
              /\ pc' = [pc EXCEPT ![p] = "vaRet"]
              /\ hist' = [hist EXCEPT ![p].verdict = "Ok"]
           \/ /\ \E v \in {"StructuralError", "SigFailed"} : hist' = [hist EXCEPT ![p].verdict = v]
              /\ pc' = [pc EXCEPT ![p] = IF flags.NewStateMgmt THEN "vaHasState" ELSE "vaDBState"]
              /\ UNCHANGED res
    /\ UNCHANGED <<guardVars, hostVars, heap, stateOf, dbBlocks, initSync, base, att, aState, calls>>

\* committee, err := helpers.BeaconCommitteeFromState(...); indexedAtt := ConvertToIndexed(...)
\* err := blocks.VerifyIndexedAttestation(ctx, baseState, indexedAtt): nil,
\* helpers.ErrSigFailedToVerify, or another error.
VerifyIndexed(p) ==
    /\ pc[p] = "vaVerify"
    /\ LET committee == BeaconCommitteeFromState(heap, base[p], att[p].Slot)
           indexedAtt == ConvertToIndexed(att[p], committee)
       IN  \/ /\ AttFail(p, "CommitteeError")
              /\ UNCHANGED hist
           \/ /\ res' = [res EXCEPT ![p] = AttRes(indexedAtt, "nil")]
              /\ pc' = [pc EXCEPT ![p] = "vaRet"]
              /\ hist' = [hist EXCEPT ![p].verdict = "Ok"]
           \/ /\ AttFail(p, "StructuralError")
              /\ hist' = [hist EXCEPT ![p].verdict = "StructuralError"]
           \/ /\ pc' = [pc EXCEPT ![p] = IF flags.NewStateMgmt THEN "vaHasState" ELSE "vaDBState"]
              /\ hist' = [hist EXCEPT ![p].verdict = "SigFailed"]
              /\ UNCHANGED res
    /\ UNCHANGED <<guardVars, hostVars, heap, stateOf, dbBlocks, initSync, base, att, aState, calls>>

\* if !s.stateGen.HasState(ctx, a.Data.BeaconBlockRoot)
AttCheckHasState(p) ==
    /\ pc[p] = "vaHasState"
    /\ hist' = [hist EXCEPT ![p] = Bump(@, "has")]
    /\ pc' = [pc EXCEPT ![p] = IF HasState(stateOf, att[p].BeaconBlockRoot) THEN "vaStateByRoot"
                               ELSE "vaSaveBlocks"]
    /\ UNCHANGED <<guardVars, hostVars, heap, stateOf, dbBlocks, initSync, base, res, att, aState,
                   calls>>

\* s.beaconDB.SaveBlocks(ctx, s.getInitSyncBlocks())
AttSaveBlocks(p) ==
    /\ pc[p] = "vaSaveBlocks"
    /\ hist' = [hist EXCEPT ![p] = Bump(@, "flush")]
    /\ \/ /\ AttFail(p, "SaveBlocksError")
          /\ UNCHANGED dbBlocks
       \/ /\ dbBlocks' = dbBlocks \cup initSync
          /\ pc' = [pc EXCEPT ![p] = "vaClear"]
          /\ UNCHANGED res
    /\ UNCHANGED <<guardVars, hostVars, heap, stateOf, initSync, base, att, aState, calls>>

\* s.clearInitSyncBlocks()
AttClearInitSyncBlocks(p) ==
    /\ pc[p] = "vaClear"
    /\ initSync' = {}
    /\ pc' = [pc EXCEPT ![p] = "vaStateByRoot"]
    /\ UNCHANGED <<guardVars, hostVars, heap, stateOf, dbBlocks, base, res, att, aState, hist,
                   calls>>

\* aState, err = s.stateGen.StateByRoot(ctx, a.Data.BeaconBlockRoot)
AttStateByRoot(p) ==
    /\ pc[p] = "vaStateByRoot"
    /\ hist' = [hist EXCEPT ![p] = Bump(@, "gen")]
    /\ \/ /\ AttFail(p, "StateByRootError")
          /\ UNCHANGED <<heap, stateOf, aState>>
       \/ /\ CanReplay(stateOf, dbBlocks, att[p].BeaconBlockRoot)
          /\ LET held == HasState(stateOf, att[p].BeaconBlockRoot)
                 id == IF held THEN stateOf[att[p].BeaconBlockRoot] ELSE NewId(heap)
             IN  /\ heap' = IF held THEN heap ELSE heap @@ (id :> StateAt(att[p].BeaconBlockRoot))
                 /\ stateOf' = [stateOf EXCEPT ![att[p].BeaconBlockRoot] = id]
                 /\ aState' = [aState EXCEPT ![p] = id]
          /\ pc' = [pc EXCEPT ![p] = "vaSeed"]
          /\ UNCHANGED res
    /\ UNCHANGED <<guardVars, hostVars, dbBlocks, initSync, base, att, calls>>

\* aState, err = s.beaconDB.State(ctx, a.Data.BeaconBlockRoot)
AttDBState(p) ==
    /\ pc[p] = "vaDBState"
    /\ hist' = [hist EXCEPT ![p] = Bump(@, "gen")]
    /\ \/ /\ AttFail(p, "DBStateError")
          /\ UNCHANGED aState
       \/ /\ aState' = [aState EXCEPT ![p] = stateOf[att[p].BeaconBlockRoot]]
          /\ pc' = [pc EXCEPT ![p] = "vaSeed"]
          /\ UNCHANGED res
    /\ UNCHANGED <<guardVars, hostVars, heap, stateOf, dbBlocks, initSync, base, att, calls>>

\* if aState == nil { error }; origSeed, err := helpers.Seed(baseState, epoch, ...);
\* aSeed, err := helpers.Seed(aState, epoch, ...); if origSeed != aSeed { error };
\* return nil, errors.Wrap(err, "could not verify indexed attestation")
CompareSeeds_BaseStateTwice(p) ==
    /\ pc[p] = "vaSeed"
    /\ LET epoch == SlotToEpoch(att[p].Slot)
           origSeed == Seed(heap, base[p], epoch)
           aSeed == Seed(heap, base[p], epoch)
       IN  \/ /\ aState[p] = Nil
              /\ AttFail(p, "NilState")
           \/ /\ aState[p] # Nil
              /\ \/ AttFail(p, "OrigSeedError")
                 \/ AttFail(p, "AttesterSeedError")
                 \/ AttFail(p, IF origSeed # aSeed THEN "SeedMismatch" ELSE "InvalidSignature")
    /\ UNCHANGED <<guardVars, hostVars, heap, stateOf, dbBlocks, initSync, base, att, aState, hist,
                   calls>>

CompareSeeds(p) ==
    /\ pc[p] = "vaSeed"
    /\ LET epoch == SlotToEpoch(att[p].Slot)
           origSeed == Seed(heap, base[p], epoch)
           aSeed == Seed(heap, aState[p], epoch)
       IN  \/ /\ aState[p] = Nil
              /\ AttFail(p, "NilState")
           \/ /\ aState[p] # Nil
              /\ \/ AttFail(p, "OrigSeedError")
                 \/ AttFail(p, "AttesterSeedError")
                 \/ AttFail(p, IF origSeed # aSeed THEN "SeedMismatch" ELSE "InvalidSignature")
    /\ UNCHANGED <<guardVars, hostVars, heap, stateOf, dbBlocks, initSync, base, att, aState, hist,
                   calls>>

\* The caller takes the result (res at this point).
ReturnAtt(p) ==
    /\ pc[p] = "vaRet"
    /\ pc' = [pc EXCEPT ![p] = "idle"]
    /\ base' = [base EXCEPT ![p] = Nil]
    /\ aState' = [aState EXCEPT ![p] = Nil]
    /\ att' = [att EXCEPT ![p] = NoAtt]
    /\ res' = [res EXCEPT ![p] = NoRes]
    /\ hist' = [hist EXCEPT ![p] = NoHist]
    /\ UNCHANGED <<guardVars, hostVars, heap, stateOf, dbBlocks, initSync, calls>>

verifyAttestation(p) ==
    \/ VerifyIndexed(p)
    \/ AttCheckHasState(p)
    \/ AttSaveBlocks(p)
    \/ AttClearInitSyncBlocks(p)
    \/ AttStateByRoot(p)
    \/ AttDBState(p)
    \/ CompareSeeds(p)
    \/ ReturnAtt(p)

\* ------------------------------------------------------------ environment
\* A block producer adds a block it received to the init-sync buffer.
AddInitSyncBlock ==
    /\ \E r \in Roots \ (dbBlocks \cup initSync) : initSync' = initSync \cup {r}
    /\ UNCHANGED <<flags, lock, cache, heap, stateOf, headRoot, headObj, dbBlocks, pc, cp, base,
                   res, att, aState, hist, calls, genCalls, everFailed, everEvicted, vres>>

\* Either the node has processed nothing but genesis and the blocks it has
\* received wait in the init-sync buffer, or it has processed every block.
Init ==
    /\ flags \in [NewStateMgmt : BOOLEAN, CheckHeadState : BOOLEAN]
    /\ \E known \in {0, MaxRoot} :
         /\ InitSvc(known)
         /\ dbBlocks = 0 .. known
         /\ initSync = (known + 1) .. MaxRoot
    /\ vres = NoVres

Next ==
    \/ \E p \in Procs : Call(p)
    \/ \E p \in Procs : getAttPreState(p)

Spec == Init /\ [][Next]_vars

\* Two goroutines contend for the guard under a fair scheduler: a goroutine
\* inside getAttPreState that can take a step eventually takes one (the
\* collaborators' calls terminate).
Contenders == {1, NumProcs}

\* A contender calls getAttPreState(ctx, c); NumProcs calls are made in all.
CallLive(p) ==
    /\ calls < NumProcs
    /\ Call(p)

NextLive ==
    \/ \E p \in Contenders : CallLive(p)
    \/ \E p \in Contenders : getAttPreState(p)

SpecLive == Init /\ [][NextLive]_vars /\ \A p \in Contenders : WF_vars(getAttPreState(p))

\* verifyAttestation calls of several goroutines, with a block producer filling
\* the init-sync buffer.
InitAtt ==
    /\ flags \in [NewStateMgmt : BOOLEAN, CheckHeadState : {FALSE}]
    /\ \E known \in {0, MaxRoot} :
         /\ InitSvc(known)
         /\ dbBlocks = 0 .. known
    /\ initSync = {}
    /\ vres = NoVres

NextAtt ==
    \/ \E p \in Verifiers : CallVerifyAttestation(p)
    \/ \E p \in Verifiers : verifyAttestation(p)
    \/ AddInitSyncBlock

SpecAtt == InitAtt /\ [][NextAtt]_vars

\* Both flushes of the init-sync buffer, with NewStateMgmt set: a goroutine
\* calls getAttPreState and verifyAttestation in turn while a producer fills the
\* buffer.
InitFlush ==
    /\ flags = [NewStateMgmt |-> TRUE, CheckHeadState |-> FALSE]
    /\ \E known \in {0, MaxRoot} :
         /\ InitSvc(known)
         /\ dbBlocks = 0 .. known
    /\ initSync = {}
    /\ vres = NoVres

\* getAttPreState is called while the cache is empty: every such call misses and
\* reaches the HasState check.
CallFlush(p) ==
    /\ cache = <<>>
    /\ Call(p)

NextFlush ==
    \/ \E p \in {Min(Procs)} :
         \/ CallFlush(p)
         \/ Lock(p)
         \/ Lookup(p)
         \/ CheckHasState(p)
         \/ SaveBlocks(p)
         \/ ClearInitSyncBlocks(p)
         \/ StateByRoot(p)
         \/ Advance(p)
         \/ AddCheckpointState(p)
         \/ Unlock(p)
         \/ CallVerifyAttestation(p)
         \/ VerifyIndexed(p)
         \/ AttCheckHasState(p)
         \/ AttSaveBlocks(p)
         \/ AttClearInitSyncBlocks(p)
         \/ AttStateByRoot(p)
         \/ CompareSeeds(p)
         \/ ReturnAtt(p)
    \/ AddInitSyncBlock

SpecFlush == InitFlush /\ [][NextFlush]_vars

\* ===================================================== claims C1 .. C3
\* C1: verifyAttTargetEpoch returns nil exactly when the target epoch is the
\* current epoch ((now - genesis) / SecondsPerSlot / SlotsPerEpoch, the
\* difference taken in the unsigned arithmetic of the code) or the previous epoch
\* max(0, current - 1), and TargetEpochOutOfRange otherwise; at current epoch 0
\* only epoch 0 passes, at current epoch 1 exactly epochs 0 and 1 pass.
C1_TargetEpochWindow ==
    vres.fn = "verifyAttTargetEpoch" =>
        LET genesis == vres.a
            now == vres.b
            epoch == vres.c
            elapsed == IF now >= genesis THEN now - genesis ELSE now - genesis + Word
            current == (elapsed \div SecondsPerSlot) \div SlotsPerEpoch
            prev == IF current - 1 > 0 THEN current - 1 ELSE 0
        IN  /\ vres.err \in {"nil", "TargetEpochOutOfRange"}
            /\ (vres.err = "nil") <=> (epoch \in {current, prev})
            /\ current = 0 => ((vres.err = "nil") <=> (epoch = 0))
            /\ current = 1 => ((vres.err = "nil") <=> (epoch \in {0, 1}))

\* Epoch 0 is accepted at current epoch 1 (previous epoch clamped to 0).
C1_Witness ==
    /\ vres.fn = "verifyAttTargetEpoch"
    /\ vres.a = 0
    /\ vres.b = SecondsPerSlot * SlotsPerEpoch
    /\ vres.c = 0
    /\ vres.err = "nil"

\* C2 as stated: UnknownHead when no block is stored under the root,
\* AttestationPredatesBlock when the stored block's slot is above the attestation
\* slot, success in every other case.
C2_AsStated ==
    vres.fn = "verifyBeaconBlock" =>
        vres.err = IF vres.a \notin dbBlocks THEN "UnknownHead"
                   ELSE IF BlockSlot(vres.a) > vres.b THEN "AttestationPredatesBlock"
                   ELSE "nil"

\* C2 amended: an error of the block lookup itself is returned as it is; without
\* one, the result is UnknownHead for a missing block, AttestationPredatesBlock for
\* a block slot strictly above the attestation slot, and success otherwise
\* (block slot equal to the attestation slot included).
C2_BeaconBlock ==
    vres.fn = "verifyBeaconBlock" =>
        vres.err = IF vres.oracle # "nil" THEN vres.oracle
                   ELSE IF vres.a \notin dbBlocks THEN "UnknownHead"
                   ELSE IF BlockSlot(vres.a) > vres.b THEN "AttestationPredatesBlock"
                   ELSE "nil"

\* A head block at exactly the attestation slot is accepted.
C2_Witness ==
    /\ vres.fn = "verifyBeaconBlock"
    /\ vres.oracle = "nil"
    /\ vres.a \in dbBlocks
    /\ vres.a > 0
    /\ BlockSlot(vres.a) = vres.b
    /\ vres.err = "nil"

\* C3: verifyLMDFFGConsistent returns nil exactly when the ancestor of the head
\* vote at the start slot of the target epoch is the target root; another
\* ancestor gives LMDFFGInconsistent, and an ancestor error is returned as an error.
C3_LMDFFGConsistent ==
    vres.fn = "verifyLMDFFGConsistent" =>
        LET ffgEpoch == vres.a
            ffgRoot == vres.b
            lmdRoot == vres.c
            anc == ancestor(dbBlocks \cup initSync, lmdRoot, ffgEpoch * SlotsPerEpoch)
        IN  /\ anc.err # "nil" => vres.err = anc.err
            /\ anc.err = "nil" => /\ (vres.err = "nil") <=> (anc.r = ffgRoot)
                                  /\ anc.r # ffgRoot => vres.err = "LMDFFGInconsistent"

\* The head vote is a descendant of the target root, found by walking parents.
C3_Witness ==
    /\ vres.fn = "verifyLMDFFGConsistent"
    /\ vres.c # vres.b
    /\ BlockSlot(vres.c) > StartSlot(vres.a)
    /\ vres.err = "nil"

\* ===================================================== claims C5 .. C10
InCall(p) == pc[p] \notin {"idle", "lock"}
Generating(p) == pc[p] \in {"stateByRoot", "advance", "dbState", "advanceSaved"}
\* The head-state shortcut serves checkpoint c without the generator or the DB.
HeadServes(c) == ~flags.NewStateMgmt /\ flags.CheckHeadState /\ headRoot = c.Root

\* C4: when a verifyAttestation call returns after the indexed-attestation check
\* failed with SigFailed, the state of the attestation's head root was available
\* and both seeds were computed, the error is SeedMismatch if the seed of the
\* target pre-state differs from the seed of the head state for the attestation's
\* epoch and InvalidSignature if they are equal; no indexed attestation is
\* returned either way.
C4_SeedReconciliation ==
    \A p \in Verifiers :
        (/\ pc[p] = "vaRet"
         /\ hist[p].verdict = "SigFailed"
         /\ aState[p] # Nil
         /\ res[p].err \notin {"OrigSeedError", "AttesterSeedError"})
        => /\ res[p].indexed = NilIndexed
           /\ heap[aState[p]].root = att[p].BeaconBlockRoot
           /\ res[p].err = IF Seed(heap, base[p], SlotToEpoch(att[p].Slot))
                                 # Seed(heap, stateOf[att[p].BeaconBlockRoot], SlotToEpoch(att[p].Slot))
                           THEN "SeedMismatch"
                           ELSE "InvalidSignature"

\* A call whose head state lies on another branch than its target pre-state
\* returns SeedMismatch and no indexed attestation.
C4_Witness ==
    \E p \in Verifiers :
        /\ pc[p] = "vaRet"
        /\ hist[p].verdict = "SigFailed"
        /\ aState[p] # Nil
        /\ heap[aState[p]].root = att[p].BeaconBlockRoot
        /\ ForkOf(heap[base[p]].root) # ForkOf(att[p].BeaconBlockRoot)
        /\ res[p].err = "SeedMismatch"
        /\ res[p].indexed = NilIndexed

\* C5: every entry of the checkpoint-state cache holds a state whose slot is the
\* start slot of the entry's checkpoint epoch.
C5_CachedStateAtEpochStart ==
    \A i \in DOMAIN cache : heap[cache[i].st].slot = StartSlot(cache[i].cp.Epoch)

\* C6: as long as no collaborator has failed and nothing was evicted, the calls
\* for a checkpoint (however they interleave) invoke StateByRoot / beaconDB.State
\* once in total, every returning call returns a state, and the cache holds one
\* entry for the checkpoint.  (A checkpoint served by the head-state shortcut is
\* not generated at all; the formula is about the generated ones.)
C6_SingleFlight ==
    (~everFailed /\ ~everEvicted) =>
        \A c \in Checkpoints :
            /\ genCalls[c] <= 1
            /\ Cardinality(CacheIndex(cache, c)) <= 1
            /\ ~HeadServes(c) => (genCalls[c] = 1 <=>
                                    \/ CacheIndex(cache, c) # {}
                                    \/ \E p \in Procs : cp[p] = c /\ hist[p].gen = 1)
            /\ \A p \in Procs :
                 (pc[p] = "unlock" /\ cp[p] = c) =>
                     /\ res[p].err = "nil"
                     /\ res[p].st \in DOMAIN heap
                     /\ Cardinality(CacheIndex(cache, c)) = 1
                     /\ ~HeadServes(c) => genCalls[c] = 1

\* One goroutine has generated and cached the state of a checkpoint while another,
\* which asked for the same checkpoint, waits for the guard.
C6_Witness ==
    /\ ~everFailed /\ ~everEvicted
    /\ \E p \in Procs : \E q \in Procs \ {p} :
         /\ pc[p] = "unlock" /\ hist[p].gen = 1 /\ res[p].err = "nil"
         /\ pc[q] = "lock"
         /\ cp[q] = cp[p]

\* C7: a call made while its checkpoint is resident returns a copy of the cached
\* state and invokes neither HasState, the init-sync flush, the generator, the
\* DB, the head state nor ProcessSlots, and leaves the cache as it was.
C7_HitIsFrameFree ==
    \A p \in Procs :
        (pc[p] = "unlock" /\ hist[p].resident /\ res[p].err # "CacheLookupError") =>
            /\ res[p].err = "nil"
            /\ res[p].st \in DOMAIN heap
            /\ heap[res[p].st] = heap[CacheLookup(hist[p].cache, cp[p])]
            /\ hist[p].gen = 0 /\ hist[p].flush = 0 /\ hist[p].slots = 0
            /\ hist[p].has = 0 /\ hist[p].head = 0 /\ hist[p].ins = 0
            /\ cache = hist[p].cache

C7_Witness ==
    \E p \in Procs :
        /\ pc[p] = "unlock" /\ hist[p].resident /\ res[p].err = "nil"
        /\ genCalls[cp[p]] = 1

\* C8: a call that returns an error leaves the cache as it found it.
C8_ErrorLeavesCache ==
    \A p \in Procs :
        (pc[p] = "unlock" /\ res[p].err # "nil") =>
            /\ cache = hist[p].cache
            /\ hist[p].ins = 0
            /\ res[p].st = Nil

\* A call fails in ProcessSlots with another checkpoint already cached.
C8_Witness ==
    \E p \in Procs :
        /\ pc[p] = "unlock" /\ res[p].err = "ProcessSlotsError"
        /\ cache # <<>>

\* C9 as stated: the guard is not held while the pre-state is being generated.
C9_AsStated ==
    \A p \in Procs : Generating(p) => lock # p

\* What the code does where C9 expects otherwise: the guard is held from Lock to
\* the return, state generation and slot processing included, so while one call
\* is generating no other call is past Lock, not even one for a cached checkpoint.
C9_GuardHeldThroughout ==
    \A p \in Procs :
        InCall(p) => /\ lock = p
                     /\ \A q \in Procs \ {p} : ~InCall(q)

\* One call is in slot processing while another, for a cached checkpoint, waits.
C9_Witness ==
    \E p \in Procs : \E q \in Procs \ {p} :
        /\ pc[p] \in {"advance", "advanceSaved"}
        /\ pc[q] = "lock"
        /\ cp[q] # cp[p]
        /\ CacheIndex(cache, cp[q]) # {}

\* C10: the object the generator / the DB handed out for c.Root is the one they
\* still hold and has the contents it had when handed out, slot included, also
\* after the call has advanced its state to the epoch start.
C10_BaseStateNotMutated ==
    \A p \in Procs :
        hist[p].handed # Nil =>
            /\ stateOf[cp[p].Root] = hist[p].handed
            /\ heap[hist[p].handed] = hist[p].handedVal
            /\ heap[hist[p].handed] = StateAt(cp[p].Root)

\* A call has advanced a copy and returns it.
C10_Witness ==
    \E p \in Procs :
        /\ pc[p] = "unlock" /\ res[p].err = "nil"
        /\ hist[p].slots = 1
        /\ heap[res[p].st].slot = StartSlot(cp[p].Epoch)
        /\ heap[res[p].st].slot > heap[hist[p].handed].slot

\* C11: a verifyAttestation call returns a non-nil indexed attestation exactly
\* when the indexed-attestation check against the supplied pre-state returned
\* nil; it is then the attestation indexed by the committee of that pre-state for
\* the attestation's slot, with a nil error.  On every other exit the indexed
\* attestation is nil and the error is not.
C11_IndexedIffVerified ==
    \A p \in Verifiers :
        pc[p] = "vaRet" =>
            /\ (~res[p].indexed.nil) <=> (hist[p].verdict = "Ok")
            /\ hist[p].verdict = "Ok" =>
                 /\ res[p].err = "nil"
                 /\ res[p].indexed = ConvertToIndexed(att[p],
                        BeaconCommitteeFromState(heap, base[p], att[p].Slot))
            /\ hist[p].verdict # "Ok" => res[p].indexed = NilIndexed /\ res[p].err # "nil"

\* A verified attestation of a slot past the first epoch is returned indexed.
C11_Witness ==
    \E p \in Verifiers :
        /\ pc[p] = "vaRet"
        /\ hist[p].verdict = "Ok"
        /\ att[p].Slot >= SlotsPerEpoch
        /\ ~res[p].indexed.nil
        /\ res[p].indexed.data = att[p]
        /\ res[p].err = "nil"


\* C12: no step removes a block from the init-sync buffer unless the block is in
\* the store: every block added to the buffer stays in the buffer or in the DB.
C12_NoBlockLost ==
    [][\A r \in initSync : r \in (initSync' \cup dbBlocks')]_vars


\* C13: the object a cache entry holds is not the object returned to a caller
\* and not the object the state generator, the state store or the head holds.
C13_CacheStateNotAliased ==
    \A i \in DOMAIN cache :
        /\ cache[i].st \notin Range(stateOf)
        /\ cache[i].st # headObj
        /\ \A p \in Procs : res[p].kind = "preState" => res[p].st # cache[i].st


\* C14: on a miss with NewStateMgmt, by the time the state generator is asked
\* the init-sync buffer has been flushed exactly if the generator did not have
\* the state of c.Root: if it had, buffer and block store are as they were at
\* the HasState call; if not, every block of the buffer is in the store and the
\* buffer is empty.  No generator call precedes the flush.
C14_FlushIffStateMissing ==
    \A p \in Procs :
        /\ pc[p] \in {"saveBlocks", "clear", "stateByRoot"} => hist[p].has = 1 /\ hist[p].gen = 0
        /\ pc[p] \in {"saveBlocks", "clear"} => ~HasState(stateOf, cp[p].Root)
        /\ pc[p] = "stateByRoot" =>
             /\ hist[p].flush = 0 <=> HasState(stateOf, cp[p].Root)
             /\ hist[p].flush = 0 => initSync = hist[p].buf /\ dbBlocks = hist[p].db
             /\ hist[p].flush # 0 =>
                  /\ hist[p].flush = 1
                  /\ initSync = {}
                  /\ dbBlocks = hist[p].db \cup hist[p].buf

\* A call is about to ask the generator after it has flushed a non-empty buffer.
C14_Witness ==
    \E p \in Procs :
        /\ pc[p] = "stateByRoot"
        /\ hist[p].flush = 1
        /\ hist[p].buf # {}
        /\ initSync = {}
        /\ hist[p].buf \subseteq dbBlocks
        /\ ~(hist[p].buf \subseteq hist[p].db)


\* C15: a verifyAttestation call that did not get ErrSigFailedToVerify from the
\* indexed-attestation check (another verification error, a committee error, or
\* success) returns without having asked HasState, flushed or cleared the
\* init-sync buffer, fetched a state or compared seeds; only a call that got
\* ErrSigFailedToVerify is ever in the reconciliation steps.
C15_ReconcileOnlyOnSigFailed ==
    \A p \in Verifiers :
        /\ pc[p] \in {"vaHasState", "vaSaveBlocks", "vaClear", "vaStateByRoot", "vaDBState", "vaSeed"}
             => hist[p].verdict = "SigFailed"
        /\ (pc[p] = "vaRet" /\ hist[p].verdict # "SigFailed") =>
             /\ hist[p].has = 0 /\ hist[p].flush = 0 /\ hist[p].gen = 0
             /\ aState[p] = Nil
             /\ res[p].err \in {"nil", "CommitteeError", "StructuralError"}

\* A call returns a verification error other than ErrSigFailedToVerify while the
\* init-sync buffer holds a block and the attestation's head root has no state.
C15_Witness ==
    \E p \in Verifiers :
        /\ pc[p] = "vaRet"
        /\ hist[p].verdict = "StructuralError"
        /\ res[p].err = "StructuralError"
        /\ initSync # {}
        /\ ~HasState(stateOf, att[p].BeaconBlockRoot)


\* C16: a call that missed the cache and whose base state (handed out by the
\* generator or the DB, or the head state on the head-state path) is already at
\* the start slot of c.Epoch returns without any slot processing; the state it
\* returns and the state now cached under c both equal the base state.
C16_NoAdvanceAtEpochStart ==
    \A p \in Procs :
        (pc[p] = "unlock" /\ res[p].err = "nil" /\ ~hist[p].resident) =>
            /\ (hist[p].handed # Nil /\ hist[p].handedVal.slot = StartSlot(cp[p].Epoch)) =>
                 /\ hist[p].slots = 0
                 /\ heap[res[p].st] = hist[p].handedVal
                 /\ CacheIndex(cache, cp[p]) # {}
                 /\ heap[CacheLookup(cache, cp[p])] = hist[p].handedVal
            /\ (hist[p].head = 1 /\ heap[headObj].slot = StartSlot(cp[p].Epoch)) =>
                 /\ hist[p].slots = 0
                 /\ heap[res[p].st] = heap[headObj]
                 /\ CacheIndex(cache, cp[p]) # {}
                 /\ heap[CacheLookup(cache, cp[p])] = heap[headObj]

\* A call for a checkpoint past genesis whose block sits exactly at the epoch
\* start returns the base state.
C16_Witness ==
    \E p \in Procs :
        /\ pc[p] = "unlock" /\ res[p].err = "nil" /\ ~hist[p].resident
        /\ cp[p].Epoch > 0
        /\ hist[p].handed # Nil
        /\ hist[p].handedVal.slot = StartSlot(cp[p].Epoch)
        /\ hist[p].slots = 0
        /\ heap[res[p].st].slot = StartSlot(cp[p].Epoch)


\* C17: every call of getAttPreState, whichever way it leaves (hit, miss, or an
\* error return), eventually returns, and when it has returned it does not hold
\* the guard.
C17_EveryCallReturns ==
    \A p \in Contenders : (pc[p] # "idle") ~> (pc[p] = "idle" /\ lock # p)

\* A call that failed is about to return while another call waits for the guard.
C17_Witness ==
    \E p \in Contenders : \E q \in Contenders \ {p} :
        /\ pc[p] = "unlock" /\ res[p].err # "nil" /\ lock = p
        /\ pc[q] = "lock"


\* C18: the current slot of verifyAttTargetEpoch is the mathematical
\* floor((now - genesis) / SecondsPerSlot): a target epoch is accepted only when
\* now >= genesis and the epoch is the current or the previous epoch of that
\* difference; with now < genesis nothing is accepted.
C18_NoWrappedEpoch ==
    (vres.fn = "verifyAttTargetEpoch" /\ vres.err = "nil") =>
        LET genesis == vres.a
            now == vres.b
            epoch == vres.c
            current == ((now - genesis) \div SecondsPerSlot) \div SlotsPerEpoch
        IN  /\ now >= genesis
            /\ epoch \in {current, IF current > 1 THEN current - 1 ELSE 0}


\* C19: when SaveBlocks fails in the flush of getAttPreState or of
\* verifyAttestation, the failing step and the return that follows it leave the
\* init-sync buffer and the cache as they are, and the call returns the error
\* without having asked the state generator; getAttPreState finds the cache as
\* it was when the call took the guard.
C19_FailedFlushLeavesAll ==
    /\ [](\A p \in Procs :
            (pc[p] \in {"unlock", "vaRet"} /\ res[p].err = "SaveBlocksError") =>
                /\ hist[p].flush = 1
                /\ hist[p].gen = 0
                /\ res[p].st = Nil /\ res[p].indexed = NilIndexed
                /\ pc[p] = "unlock" => (cache = hist[p].cache /\ base[p] = Nil)
                /\ pc[p] = "vaRet" => aState[p] = Nil)
    /\ [][\A p \in Procs :
            /\ (pc[p] \in {"saveBlocks", "vaSaveBlocks"} /\ pc'[p] \notin {pc[p], "clear", "vaClear"}) =>
                 /\ res'[p].err = "SaveBlocksError"
                 /\ pc'[p] = (IF pc[p] = "saveBlocks" THEN "unlock" ELSE "vaRet")
                 /\ initSync' = initSync
                 /\ cache' = cache
                 /\ stateOf' = stateOf
            /\ (pc[p] \in {"unlock", "vaRet"} /\ res[p].err = "SaveBlocksError" /\ pc'[p] # pc[p]) =>
                 /\ pc'[p] = "idle"
                 /\ initSync' = initSync
                 /\ cache' = cache
                 /\ stateOf' = stateOf
            /\ (pc[p] \in {"saveBlocks", "vaSaveBlocks"} /\ pc'[p] \in {"clear", "vaClear"}) =>
                 initSync \subseteq dbBlocks'
       ]_vars

\* A flush of a non-empty buffer has failed in verifyAttestation: the call is
\* about to return and the buffer still holds its blocks.
C19_Witness ==
    \E p \in Procs :
        /\ pc[p] = "vaRet"
        /\ res[p].err = "SaveBlocksError"
        /\ initSync # {}
        /\ ~(initSync \subseteq dbBlocks)

\* The same in getAttPreState.
C19_WitnessPreState ==
    \E p \in Procs :
        /\ pc[p] = "unlock"
        /\ res[p].err = "SaveBlocksError"
        /\ initSync # {}
        /\ ~(initSync \subseteq dbBlocks)

====
